---- MODULE Spec2Model ----
(***************************************************************************)
(* Model of src/app.py, the MT5 Toxic Trading Analyzer.  The script is a   *)
(* Streamlit page: each run executes it top to bottom on the file held by   *)
(* the uploader widget.  One action per section of the script; the state is *)
(* the script's variables plus the sequence of elements written to the      *)
(* page.                                                                    *)
(*                                                                          *)
(* Timestamps are whole seconds.  Ratios (means, the score) are kept as     *)
(* exact fractions [num, den]; the fraction with den = 0 is NaN.            *)
(* A table cell is [k, v, s]: kind, number, text.                           *)
(***************************************************************************)
EXTENDS Integers, Sequences, FiniteSets, TLC

\* ---------------------------------------------------------------- CONFIG
SCALPING_SECONDS == 180
HFT_HOLDING_SECONDS == 60
HFT_TRADES_PER_MIN == 5
ARBITRAGE_SECONDS == 10
\* 0.80, as a fraction
ARBITRAGE_WINRATE == [num |-> 80, den |-> 100]

\* ------------------------------------------------------------ input bounds
\* longest burst of trades in an uploaded table
MaxRows == 5
\* longest table of mixed (malformed, tied, negative) rows
MaxShort == 3

\* ------------------------------------------------------------------ cells
\* Python's None, and a variable the run has not assigned yet
None == [k |-> "None", v |-> 0, s |-> ""]

Num(n) == [k |-> "num", v |-> n, s |-> ""]
Txt(t) == [k |-> "text", v |-> 0, s |-> t]
Ts(t) == [k |-> "ts", v |-> t, s |-> ""]
Empty == [k |-> "empty", v |-> 0, s |-> ""]
\* pandas' missing values
NaT == [k |-> "NaT", v |-> 0, s |-> ""]
NaN == [k |-> "NaN", v |-> 0, s |-> ""]
Bool(b) == [k |-> "bool", v |-> IF b THEN 1 ELSE 0, s |-> ""]

Frac(n, d) == [num |-> n, den |-> d]
\* a <= b on fractions; any comparison with NaN is false
FracLe(a, b) == a.den > 0 /\ b.den > 0 /\ a.num * b.den <= b.num * a.den
FracGe(a, b) == FracLe(b, a)
FracEq(a, b) == FracLe(a, b) /\ FracLe(b, a)

Range(f) == {f[i] : i \in DOMAIN f}
SeqsUpTo(S, n) == UNION {[1..m -> S] : m \in 0..n}

\* ------------------------------------------------------- uploaded tables
\* A table as the decoder sees it: rows of cells, the first row being the
\* one pandas takes as the header.  A layout says which label is written
\* over which field of a trade.
CanonicalLayout ==
    << [label |-> "Ticket", field |-> "Ticket"],
       [label |-> "Open Time", field |-> "Open"],
       [label |-> "Close Time", field |-> "Close"],
       [label |-> "Symbol", field |-> "Symbol"],
       [label |-> "Volume", field |-> "Volume"],
       [label |-> "Profit", field |-> "Profit"] >>

\* the same names in another order, with a column the analysis ignores
PermutedLayout ==
    << [label |-> "Profit", field |-> "Profit"],
       [label |-> "Symbol", field |-> "Symbol"],
       [label |-> "Comment", field |-> "Comment"],
       [label |-> "Ticket", field |-> "Ticket"],
       [label |-> "Volume", field |-> "Volume"],
       [label |-> "Close Time", field |-> "Close"],
       [label |-> "Open Time", field |-> "Open"] >>

\* the names in other capitalisation and spacing
VariantLayout ==
    << [label |-> "ticket", field |-> "Ticket"],
       [label |-> "open time", field |-> "Open"],
       [label |-> "CLOSE TIME", field |-> "Close"],
       [label |-> " Symbol ", field |-> "Symbol"],
       [label |-> "volume", field |-> "Volume"],
       [label |-> "PROFIT", field |-> "Profit"] >>

\* no Profit column at all
PartialLayout ==
    << [label |-> "Ticket", field |-> "Ticket"],
       [label |-> "Open Time", field |-> "Open"],
       [label |-> "Close Time", field |-> "Close"],
       [label |-> "Symbol", field |-> "Symbol"],
       [label |-> "Volume", field |-> "Volume"] >>

\* a report-title row that some exports put above the header
TitleRow(layout) ==
    [c \in 1..Len(layout) |-> IF c = 1 THEN Txt("Trade History Report") ELSE Empty]

HeaderRow(layout) == [c \in 1..Len(layout) |-> Txt(layout[c].label)]
BodyRow(layout, trade) == [c \in 1..Len(layout) |-> trade[layout[c].field]]

Grid(layout, titled, trades) ==
    (IF titled THEN <<TitleRow(layout)>> ELSE <<>>)
        \o <<HeaderRow(layout)>>
        \o [i \in 1..Len(trades) |-> BodyRow(layout, trades[i])]

Trade(ticket, open, close, volume, profit) ==
    [Ticket |-> ticket, Open |-> open, Close |-> close, Symbol |-> Txt("EURUSD"),
     Volume |-> volume, Profit |-> profit, Comment |-> Txt("note")]

\* Trades of a burst: the i-th row of the table opens i seconds after the
\* first, so no two close at the same second.  The fast ones open in the
\* first minute, the slow ones in the second.
BurstKinds == {"fast", "noticket", "slow"}
BurstTrade(kind, i) ==
    CASE kind = "fast" -> Trade(Num(100 + i), Ts(i), Ts(5 + i), Num(1), Num(1))
      [] kind = "noticket" -> Trade(Empty, Ts(10 + i), Ts(15 + i), Num(1), Num(0))
      [] kind = "slow" -> Trade(Num(100 + i), Ts(70 + i), Ts(270 + i), Num(2), Num(-1))

BurstBodies ==
    {[i \in DOMAIN ks |-> BurstTrade(ks[i], i)] : ks \in SeqsUpTo(BurstKinds, MaxRows)}

\* Rows with what a real export can hold: unparseable or empty timestamps,
\* text or empty numbers, a close before the open, equal close times.
MixedTrades ==
    { Trade(Num(1), Ts(0), Ts(100), Num(1), Num(3)),
      Trade(Num(2), Txt("n/a"), Ts(50), Num(1), Num(5)),
      Trade(Num(3), Ts(20), Empty, Num(1), Txt("abc")),
      Trade(Num(4), Ts(60), Ts(100), Num(1), Txt("abc")),
      Trade(Num(5), Ts(130), Ts(120), Txt("abc"), Num(-2)),
      Trade(Num(6), Ts(90), Ts(100), Num(1), Empty),
      Trade(Num(7), Ts(300), Ts(305), Num(1), Txt("abc")) }

MixedBodies == SeqsUpTo(MixedTrades, MaxShort)

File(corrupt, grid) == [corrupt |-> corrupt, grid |-> grid]

\* Every export is tried under the header the script expects; the other
\* headers are tried on the shorter tables.
Files ==
    {File(FALSE, Grid(CanonicalLayout, FALSE, b)) : b \in BurstBodies \cup MixedBodies}
    \cup {File(FALSE, Grid(PermutedLayout, FALSE, b)) : b \in SeqsUpTo(MixedTrades, MaxShort - 1)}
    \cup {File(FALSE, Grid(l, FALSE, b)) :
            l \in {VariantLayout, PartialLayout}, b \in SeqsUpTo(MixedTrades, 1)}
    \cup {File(FALSE, Grid(CanonicalLayout, TRUE, b)) : b \in SeqsUpTo(MixedTrades, 1)}
    \cup {File(TRUE, <<>>), File(FALSE, <<>>)}

\* ------------------------------------------------------------ FILE UPLOAD
\* pandas names a header cell that holds no text after its position
UnnamedLabel(c) ==
    CASE c = 1 -> "Unnamed: 0" [] c = 2 -> "Unnamed: 1" [] c = 3 -> "Unnamed: 2"
      [] c = 4 -> "Unnamed: 3" [] c = 5 -> "Unnamed: 4" [] c = 6 -> "Unnamed: 5"
      [] OTHER -> "Unnamed: 6"

ColumnLabel(cell, c) == IF cell.k = "text" THEN cell.s ELSE UnnamedLabel(c)

\* an empty cell is read as NaN; every other cell keeps its value
ReadCell(cell) == IF cell.k = "empty" THEN NaN ELSE cell

\* pd.read_csv / pd.read_excel raise on a file they cannot decode and on one
\* with no rows at all
ReadRaises(file) == file.corrupt \/ file.grid = <<>>

\* The frame read from a table: the first row gives the column labels, every
\* later row is a record of the frame, labelled ("index") by its position.
ReadFrame(file) ==
    LET header == file.grid[1]
        columns == [c \in 1..Len(header) |-> ColumnLabel(header[c], c)]
        ColOf(label) == CHOOSE c \in 1..Len(header) : columns[c] = label
    IN [columns |-> columns,
        rows |-> [i \in 1..(Len(file.grid) - 1) |->
                    [l \in Range(columns) \cup {"index"} |->
                        IF l = "index" THEN Num(i - 1)
                        ELSE ReadCell(file.grid[i + 1][ColOf(l)])]]]

\* ------------------------------------------------- REQUIRED COLUMNS CHECK
required_cols == <<"Ticket", "Open Time", "Close Time", "Symbol", "Volume", "Profit">>

\* [c for c in required_cols if c not in df.columns]
Missing(frame) ==
    LET Absent(c) == c \notin Range(frame.columns)
    IN SelectSeq(required_cols, Absent)

\* ------------------------------------------------------------ PROCESS DATA
IsNull(cell) == cell.k \in {"NaT", "NaN"}

\* pd.to_datetime(..., errors="coerce"): what is no timestamp becomes NaT
ToDatetime(cell) == IF cell.k = "ts" THEN cell ELSE NaT

\* df[label] = values
SetColumn(rows, label, values) ==
    [i \in DOMAIN rows |->
        [l \in (DOMAIN rows[i]) \cup {label} |-> IF l = label THEN values[i] ELSE rows[i][l]]]

\* dropna() with no subset: a null in any column drops the record
DropSubsetAll(frame) == Range(frame.columns)

\* the labels whose null values make dropna drop a record
DropSubset(frame) == {"Open Time", "Close Time"}

DropNa(frame) ==
    LET Whole(r) == \A l \in DropSubset(frame) : ~IsNull(r[l])
    IN SelectSeq(frame.rows, Whole)

HoldingSeconds(r) == Num(r["Close Time"].v - r["Open Time"].v)
AtMost(r, label, limit) == Bool(r[label].v <= limit)
FloorMinute(r) == Ts((r["Open Time"].v \div 60) * 60)

\* lines 83-97: the records of the frame with their derived columns
Processed(frame) ==
    LET opened == SetColumn(frame.rows, "Open Time",
                            [i \in DOMAIN frame.rows |-> ToDatetime(frame.rows[i]["Open Time"])])
        closed == SetColumn(opened, "Close Time",
                            [i \in DOMAIN opened |-> ToDatetime(opened[i]["Close Time"])])
        kept == DropNa([frame EXCEPT !.rows = closed])
        held == SetColumn(kept, "Holding Seconds",
                          [i \in DOMAIN kept |-> HoldingSeconds(kept[i])])
        Within(limit) == [i \in DOMAIN held |-> AtMost(held[i], "Holding Seconds", limit)]
        flagged == SetColumn(SetColumn(SetColumn(held, "Scalping", Within(SCALPING_SECONDS)),
                                       "HFT_Band", Within(HFT_HOLDING_SECONDS)),
                             "Arbitrage_Short", Within(ARBITRAGE_SECONDS))
    IN SetColumn(flagged, "Open Minute", [i \in DOMAIN flagged |-> FloorMinute(flagged[i])])

Max(S) == CHOOSE x \in S : \A y \in S : y <= x

\* df.groupby("Open Minute")["Ticket"].count(): per minute, the records whose
\* Ticket is not null
TradesPerMin(rows) ==
    [m \in {rows[i]["Open Minute"].v : i \in DOMAIN rows} |->
        Cardinality({i \in DOMAIN rows :
                        rows[i]["Open Minute"].v = m /\ ~IsNull(rows[i]["Ticket"])})]

MaxTradesPerMin(rows) ==
    LET trades_per_min == TradesPerMin(rows)
    IN IF DOMAIN trades_per_min # {} THEN Max(Range(trades_per_min)) ELSE 0

RECURSIVE SumOf(_, _)
\* Series.sum(): null values are skipped
SumOf(rows, label) ==
    IF rows = <<>> THEN 0
    ELSE (IF rows[1][label].k \in {"num", "bool"} THEN rows[1][label].v ELSE 0)
         + SumOf(Tail(rows), label)

\* Series.mean() of an empty column is NaN
Mean(rows, label) == Frac(SumOf(rows, label), Len(rows))

\* the mean taken without looking at len(df)
AvgHoldingUnguarded(rows) == Mean(rows, "Holding Seconds")

AvgHolding(rows) == IF Len(rows) > 0 THEN Mean(rows, "Holding Seconds") ELSE Frac(0, 1)

HftSuspect(avg, max_tpm) ==
    FracLe(avg, Frac(HFT_HOLDING_SECONDS, 1)) /\ max_tpm >= HFT_TRADES_PER_MIN

Flagged(rows, label) ==
    LET On(r) == r[label].v = 1
    IN SelectSeq(rows, On)

ArbDf(rows) == Flagged(rows, "Arbitrage_Short")

\* Python cannot order a text against a number
HasText(rows, label) == \E i \in DOMAIN rows : rows[i][label].k = "text"

\* (arb_df["Profit"] > 0): NaN > 0 is False
Positive(r) == Bool(r["Profit"].k = "num" /\ r["Profit"].v > 0)

ArbWinrate(rows) ==
    LET arb_df == ArbDf(rows)
    IN IF Len(arb_df) > 0
       THEN Mean(SetColumn(arb_df, "win", [i \in DOMAIN arb_df |-> Positive(arb_df[i])]), "win")
       ELSE None

\* > in place of >=
ArbSuspectStrict(winrate) ==
    winrate # None /\ FracGe(winrate, ARBITRAGE_WINRATE) /\ ~FracEq(winrate, ARBITRAGE_WINRATE)

ArbSuspect(winrate) == winrate # None /\ FracGe(winrate, ARBITRAGE_WINRATE)

\* ----------------------------------------------------------------- SUMMARY
ScalpRatio(scalp, total) == IF total # 0 THEN Frac(scalp, total) ELSE Frac(0, 1)

\* (arb_winrate or 0): None and 0.0 are both falsy
WinrateOrZero(winrate) ==
    IF winrate = None \/ winrate.num = 0 THEN Frac(0, 1) ELSE winrate

\* the win rate weighted 40 like the scalping ratio
ToxicScoreHeavy(scalp, total, hft, winrate) ==
    LET a == ScalpRatio(scalp, total)
        b == WinrateOrZero(winrate)
    IN Frac(a.num * 40 * b.den + (IF hft THEN 30 ELSE 0) * a.den * b.den
                + b.num * 40 * a.den,
            a.den * b.den)

\* ratio * 40 + (30 if hft_suspect else 0) + (arb_winrate or 0) * 30
ToxicScore(scalp, total, hft, winrate) ==
    LET a == ScalpRatio(scalp, total)
        b == WinrateOrZero(winrate)
    IN Frac(a.num * 40 * b.den + (IF hft THEN 30 ELSE 0) * a.den * b.den
                + b.num * 30 * a.den,
            a.den * b.den)

RiskLevel(score) ==
    IF FracGe(score, Frac(70, 1)) THEN "HIGH RISK"
    ELSE IF FracGe(score, Frac(40, 1)) THEN "MEDIUM RISK"
    ELSE "LOW RISK"

\* ------------------------------------------------------------ EQUITY CURVE
RECURSIVE SortOutcomes(_, _)
\* df.sort_values(label): pandas sorts with kind="quicksort", which promises no
\* order among records of equal key; every ascending arrangement is an outcome.
SortOutcomes(rows, label) ==
    LET Arrange(I) ==
            IF I = {} THEN {<<>>}
            ELSE UNION {{<<rows[i]>> \o t :
                            t \in SortOutcomes([j \in 1..(Len(rows) - 1) |->
                                                  IF j < i THEN rows[j] ELSE rows[j + 1]],
                                               label)} :
                        i \in {i \in I : \A j \in I : rows[i][label].v <= rows[j][label].v}}
    IN Arrange(DOMAIN rows)

\* Series.cumsum(): a null value stays null and is skipped by the running sum
CumSum(rows, label) ==
    [i \in DOMAIN rows |->
        IF IsNull(rows[i][label]) THEN NaN ELSE Num(SumOf(SubSeq(rows, 1, i), label))]

WithCumulative(rows) == SetColumn(rows, "Cumulative P&L", CumSum(rows, "Profit"))

\* ---------------------------------------------- TRADES TABLE WITH FILTERS
ViewDf(rows, scalp, hft, arb) ==
    LET v0 == rows
        v1 == IF scalp THEN Flagged(v0, "Scalping") ELSE v0
        v2 == IF hft THEN Flagged(v1, "HFT_Band") ELSE v1
    IN IF arb THEN Flagged(v2, "Arbitrage_Short") ELSE v2

\* ------------------------------------------------------------------- state
VARIABLES uploaded_file, pc, out, df,
          max_trades_per_min, avg_holding, hft_suspect, arb_winrate, arb_suspect,
          total_trades, total_profit, scalp_trades, scalp_profit, toxic_score, risk_level,
          df_sorted, view_df, only_scalp, only_hft, only_arb

features == <<max_trades_per_min, avg_holding, hft_suspect, arb_winrate, arb_suspect>>
summary == <<total_trades, total_profit, scalp_trades, scalp_profit, toxic_score, risk_level>>
table == <<view_df, only_scalp, only_hft, only_arb>>
vars == <<uploaded_file, pc, out, df, features, summary, df_sorted, table>>

\* The state when a run of the script begins on `file`.
Begin(file) ==
    /\ uploaded_file = file
    /\ pc = "start"
    /\ out = <<>>
    /\ df = None
    /\ max_trades_per_min = None
    /\ avg_holding = None
    /\ hft_suspect = None
    /\ arb_winrate = None
    /\ arb_suspect = None
    /\ total_trades = None
    /\ total_profit = None
    /\ scalp_trades = None
    /\ scalp_profit = None
    /\ toxic_score = None
    /\ risk_level = None
    /\ df_sorted = None
    /\ view_df = None
    /\ only_scalp = None
    /\ only_hft = None
    /\ only_arb = None

\* A run of the script begins, on whatever the uploader holds.
Init == \E file \in Files \cup {None} : Begin(file)

\* lines 14-28
PageHeader ==
    /\ pc = "start"
    /\ out' = out \o <<"title", "intro">>
    /\ pc' = "read"
    /\ UNCHANGED <<uploaded_file, df, features, summary, df_sorted, table>>

\* lines 40-57, the file decodes
ReadFile ==
    /\ pc = "read"
    /\ uploaded_file # None
    /\ ~ReadRaises(uploaded_file)
    /\ df' = ReadFrame(uploaded_file)
    /\ pc' = "branch"
    /\ UNCHANGED <<uploaded_file, out, features, summary, df_sorted, table>>

\* lines 55-57
ReadFileError ==
    /\ pc = "read"
    /\ uploaded_file # None
    /\ ReadRaises(uploaded_file)
    /\ out' = Append(out, "error")
    /\ df' = None
    /\ pc' = "branch"
    /\ UNCHANGED <<uploaded_file, features, summary, df_sorted, table>>

\* line 40, nothing uploaded
NoFile ==
    /\ pc = "read"
    /\ uploaded_file = None
    /\ pc' = "branch"
    /\ UNCHANGED <<uploaded_file, out, df, features, summary, df_sorted, table>>

\* lines 228-229
PromptUpload ==
    /\ pc = "branch"
    /\ df = None
    /\ out' = Append(out, "info")
    /\ pc' = "prompted"
    /\ UNCHANGED <<uploaded_file, df, features, summary, df_sorted, table>>

\* lines 59-61
Preview ==
    /\ pc = "branch"
    /\ df # None
    /\ out' = Append(out, "preview")
    /\ pc' = "check"
    /\ UNCHANGED <<uploaded_file, df, features, summary, df_sorted, table>>

\* lines 75-78
MissingColumns ==
    /\ pc = "check"
    /\ Missing(df) # <<>>
    /\ out' = Append(out, "error")
    /\ pc' = "stopped"
    /\ UNCHANGED <<uploaded_file, df, features, summary, df_sorted, table>>

ColumnsPresent ==
    /\ pc = "check"
    /\ Missing(df) = <<>>
    /\ pc' = "process"
    /\ UNCHANGED <<uploaded_file, out, df, features, summary, df_sorted, table>>

DerivedColumns ==
    <<"Holding Seconds", "Scalping", "HFT_Band", "Arbitrage_Short", "Open Minute">>

\* lines 83-114
ProcessData ==
    /\ pc = "process"
    /\ LET rows == Processed(df)
           avg == AvgHolding(rows)
           max_tpm == MaxTradesPerMin(rows)
       IN /\ ~HasText(ArbDf(rows), "Profit")
          /\ df' = [columns |-> df.columns \o DerivedColumns, rows |-> rows]
          /\ max_trades_per_min' = max_tpm
          /\ avg_holding' = avg
          /\ hft_suspect' = HftSuspect(avg, max_tpm)
          /\ arb_winrate' = ArbWinrate(rows)
          /\ arb_suspect' = ArbSuspect(ArbWinrate(rows))
    /\ pc' = "summary"
    /\ UNCHANGED <<uploaded_file, out, summary, df_sorted, table>>

\* line 113 raises TypeError: a text Profit among the ultra-short trades
ProcessDataTypeError ==
    /\ pc = "process"
    /\ LET rows == Processed(df)
           avg == AvgHolding(rows)
           max_tpm == MaxTradesPerMin(rows)
       IN /\ HasText(ArbDf(rows), "Profit")
          /\ df' = [columns |-> df.columns \o DerivedColumns, rows |-> rows]
          /\ max_trades_per_min' = max_tpm
          /\ avg_holding' = avg
          /\ hft_suspect' = HftSuspect(avg, max_tpm)
          /\ arb_winrate' = None
          /\ arb_suspect' = FALSE
    /\ out' = Append(out, "exception")
    /\ pc' = "crashed"
    /\ UNCHANGED <<uploaded_file, summary, df_sorted, table>>

\* lines 119-154
Summary ==
    /\ pc = "summary"
    /\ ~HasText(df.rows, "Profit")
    /\ total_trades' = Len(df.rows)
    /\ total_profit' = SumOf(df.rows, "Profit")
    /\ scalp_trades' = SumOf(df.rows, "Scalping")
    /\ scalp_profit' = SumOf(Flagged(df.rows, "Scalping"), "Profit")
    /\ toxic_score' = ToxicScore(scalp_trades', total_trades', hft_suspect, arb_winrate)
    /\ risk_level' = RiskLevel(toxic_score')
    /\ out' = out \o <<"summary", "score">>
    /\ pc' = "equity"
    /\ UNCHANGED <<uploaded_file, df, features, df_sorted, table>>

\* A text Profit among the records: the sum of line 120 raises TypeError, or
\* (all of them text) joins the texts and round() of line 137 raises it after
\* the summary has begun to show.
SummaryTypeError ==
    /\ pc = "summary"
    /\ HasText(df.rows, "Profit")
    /\ total_trades' = Len(df.rows)
    /\ \E begun \in BOOLEAN :
          out' = out \o (IF begun THEN <<"summary">> ELSE <<>>) \o <<"exception">>
    /\ pc' = "crashed"
    /\ UNCHANGED <<uploaded_file, df, features, total_profit, scalp_trades, scalp_profit,
                   toxic_score, risk_level, df_sorted, table>>

\* sort_values(inplace=True): the sorted frame replaces the Dataset
EquityCurveInPlace ==
    /\ pc = "equity"
    /\ \E sorted \in SortOutcomes(df.rows, "Close Time") :
          /\ df_sorted' = WithCumulative(sorted)
          /\ df' = [df EXCEPT !.rows = WithCumulative(sorted)]
    /\ out' = Append(out, "equity")
    /\ pc' = "histogram"
    /\ UNCHANGED <<uploaded_file, features, summary, table>>

\* lines 159-171
EquityCurve ==
    /\ pc = "equity"
    /\ \E sorted \in SortOutcomes(df.rows, "Close Time") :
          df_sorted' = WithCumulative(sorted)
    /\ out' = Append(out, "equity")
    /\ pc' = "histogram"
    /\ UNCHANGED <<uploaded_file, df, features, summary, table>>

\* lines 176-183
HoldingHistogram ==
    /\ pc = "histogram"
    /\ out' = Append(out, "histogram")
    /\ pc' = "table"
    /\ UNCHANGED <<uploaded_file, df, features, summary, df_sorted, table>>

\* lines 188-227; the three checkboxes are what the user has set
TradesTable ==
    /\ pc = "table"
    /\ \E scalp \in BOOLEAN, hft \in BOOLEAN, arb \in BOOLEAN :
          /\ only_scalp' = scalp
          /\ only_hft' = hft
          /\ only_arb' = arb
          /\ view_df' = ViewDf(df.rows, scalp, hft, arb)
    /\ out' = out \o <<"table", "download">>
    /\ pc' = "done"
    /\ UNCHANGED <<uploaded_file, df, features, summary, df_sorted>>

\* Streamlit runs the script again, from the top, on any interaction.
Rerun ==
    /\ pc \in {"done", "prompted", "stopped", "crashed"}
    /\ pc' = "start"
    /\ out' = <<>>
    /\ df' = None
    /\ max_trades_per_min' = None
    /\ avg_holding' = None
    /\ hft_suspect' = None
    /\ arb_winrate' = None
    /\ arb_suspect' = None
    /\ total_trades' = None
    /\ total_profit' = None
    /\ scalp_trades' = None
    /\ scalp_profit' = None
    /\ toxic_score' = None
    /\ risk_level' = None
    /\ df_sorted' = None
    /\ view_df' = None
    /\ only_scalp' = None
    /\ only_hft' = None
    /\ only_arb' = None
    /\ UNCHANGED uploaded_file

Next ==
    \/ PageHeader
    \/ ReadFile
    \/ ReadFileError
    \/ NoFile
    \/ PromptUpload
    \/ Preview
    \/ MissingColumns
    \/ ColumnsPresent
    \/ ProcessData
    \/ ProcessDataTypeError
    \/ Summary
    \/ SummaryTypeError
    \/ EquityCurve
    \/ HoldingHistogram
    \/ TradesTable
    \/ Rerun

Spec == Init /\ [][Next]_vars

\* =========================================================================
\* What the specification says of the table locator; the script has no part
\* that does this.  A text is spelled out so that it can be normalized:
\* trimmed, lower-cased, spaces removed.
Spelling(t) ==
    CASE t = "Ticket" -> <<"T", "i", "c", "k", "e", "t">>
      [] t = "Open Time" -> <<"O", "p", "e", "n", " ", "T", "i", "m", "e">>
      [] t = "Close Time" -> <<"C", "l", "o", "s", "e", " ", "T", "i", "m", "e">>
      [] t = "Symbol" -> <<"S", "y", "m", "b", "o", "l">>
      [] t = "Volume" -> <<"V", "o", "l", "u", "m", "e">>
      [] t = "Profit" -> <<"P", "r", "o", "f", "i", "t">>
      [] t = "Comment" -> <<"C", "o", "m", "m", "e", "n", "t">>
      [] t = "ticket" -> <<"t", "i", "c", "k", "e", "t">>
      [] t = "open time" -> <<"o", "p", "e", "n", " ", "t", "i", "m", "e">>
      [] t = "CLOSE TIME" -> <<"C", "L", "O", "S", "E", " ", "T", "I", "M", "E">>
      [] t = " Symbol " -> <<" ", "S", "y", "m", "b", "o", "l", " ">>
      [] t = "volume" -> <<"v", "o", "l", "u", "m", "e">>
      [] t = "PROFIT" -> <<"P", "R", "O", "F", "I", "T">>
      [] t = "Trade History Report" -> <<"T", "r", "a", "d", "e", " ", "H", "i", "s", "t", "o", "r", "y", " ", "R", "e", "p", "o", "r", "t">>
      [] t = "EURUSD" -> <<"E", "U", "R", "U", "S", "D">>
      [] t = "abc" -> <<"a", "b", "c">>
      [] t = "n/a" -> <<"n", "/", "a">>
      [] t = "note" -> <<"n", "o", "t", "e">>
      [] OTHER -> <<>>

LowerCase(c) ==
    CASE c = "C" -> "c"
      [] c = "D" -> "d"
      [] c = "E" -> "e"
      [] c = "F" -> "f"
      [] c = "H" -> "h"
      [] c = "I" -> "i"
      [] c = "L" -> "l"
      [] c = "M" -> "m"
      [] c = "O" -> "o"
      [] c = "P" -> "p"
      [] c = "R" -> "r"
      [] c = "S" -> "s"
      [] c = "T" -> "t"
      [] c = "U" -> "u"
      [] c = "V" -> "v"
      [] OTHER -> c

Normalized(t) ==
    LET lowered == [i \in DOMAIN Spelling(t) |-> LowerCase(Spelling(t)[i])]
        NotSpace(c) == c # " "
    IN SelectSeq(lowered, NotSpace)

RequiredNormalized ==
    { <<"t", "i", "c", "k", "e", "t">>,
      <<"o", "p", "e", "n", "t", "i", "m", "e">>,
      <<"c", "l", "o", "s", "e", "t", "i", "m", "e">>,
      <<"s", "y", "m", "b", "o", "l">>,
      <<"v", "o", "l", "u", "m", "e">>,
      <<"p", "r", "o", "f", "i", "t">> }

\* the rows of the uploaded table that hold all six required names
QualifyingRows ==
    {r \in DOMAIN uploaded_file.grid :
        RequiredNormalized \subseteq
            {Normalized(uploaded_file.grid[r][c].s) :
                c \in {c \in DOMAIN uploaded_file.grid[r] : uploaded_file.grid[r][c].k = "text"}}}

Min(S) == CHOOSE x \in S : \A y \in S : x <= y

\* =========================================================================
\* The input of the run, as uploaded, for stating what the run must produce.
AfterProcess == {"summary", "equity", "histogram", "table", "done"}
AfterSummary == {"equity", "histogram", "table", "done"}
AfterEquity == {"histogram", "table", "done"}
\* the Dataset exists: PROCESS DATA has built it, also in a run that then raised
DatasetBuilt == pc \in AfterProcess \cup {"crashed"}

InputCount == Len(uploaded_file.grid) - 1
InputCell(j, label) ==
    uploaded_file.grid[j + 1][CHOOSE c \in DOMAIN uploaded_file.grid[1] :
                                 uploaded_file.grid[1][c] = Txt(label)]
ValidTimes(j) == InputCell(j, "Open Time").k = "ts" /\ InputCell(j, "Close Time").k = "ts"
Survivors == {j \in 1..InputCount : ValidTimes(j)}
InputHolding(j) == InputCell(j, "Close Time").v - InputCell(j, "Open Time").v
InputMinute(j) == InputCell(j, "Open Time").v \div 60
NumberOrZero(cell) == IF cell.k = "num" THEN cell.v ELSE 0
InputProfit(j) == NumberOrZero(InputCell(j, "Profit"))

RECURSIVE Total(_, _)
\* the sum of f over the finite set S
Total(S, f) ==
    IF S = {} THEN 0
    ELSE LET x == CHOOSE x \in S : TRUE IN f[x] + Total(S \ {x}, f)

ProfitOver(S) == Total(S, [j \in S |-> InputProfit(j)])
Largest(S) == IF S = {} THEN 0 ELSE Max(S)

\* =========================================================================
\* C1: for every dataset (the empty one and negative holding times included)
\* the toxicity score, computed without any clamping, is at least 0 and at
\* most 100.
C1_ScoreBounds ==
    pc \in AfterSummary =>
        FracLe(Frac(0, 1), toxic_score) /\ FracLe(toxic_score, Frac(100, 1))

\* a run that reports the largest score there is
C1_Witness == pc = "done" /\ FracEq(toxic_score, Frac(100, 1))

\* -------------------------------------------------------------------------
HoldingOver(S) == Total(S, [j \in S |-> InputHolding(j)])
RowsInMinute(m) == Cardinality({j \in Survivors : InputMinute(j) = m})
MaxRowsPerMinute == Largest({RowsInMinute(InputMinute(j)) : j \in Survivors})

\* C2: hft_suspect is true if and only if the mean holding time of the
\* Dataset is at most 60 seconds and some one-minute bucket of open times
\* holds at least 5 records (rows); an empty Dataset has no such bucket.
C2_HftCountsRows ==
    pc \in AfterProcess =>
        (hft_suspect <=>
            /\ HoldingOver(Survivors) <= HFT_HOLDING_SECONDS * Cardinality(Survivors)
            /\ MaxRowsPerMinute >= HFT_TRADES_PER_MIN)

\* -------------------------------------------------------------------------
ArbShortInputs == {j \in Survivors : InputHolding(j) <= ARBITRAGE_SECONDS}
ArbWins == {j \in ArbShortInputs : InputProfit(j) > 0}
ScalpInputs == {j \in Survivors : InputHolding(j) <= SCALPING_SECONDS}
\* the score of a dataset whose win rate adds nothing
ScoreWithoutWinrate ==
    IF Survivors = {} THEN Frac(0, 1)
    ELSE Frac(40 * Cardinality(ScalpInputs)
                + (IF hft_suspect THEN 30 ELSE 0) * Cardinality(Survivors),
              Cardinality(Survivors))

\* C3: arb_winrate is None exactly when no record is held 10 seconds or less;
\* then it adds 0 to the score and arb_suspect is false.  Otherwise it is the
\* fraction of those records with profit > 0 (0 when none wins), and
\* arb_suspect holds exactly when that fraction is at least 0.80.
C3_ArbitrageWinrate ==
    pc \in AfterProcess =>
        /\ (arb_winrate = None) <=> (ArbShortInputs = {})
        /\ arb_winrate = None =>
              /\ arb_suspect = FALSE
              /\ pc \in AfterSummary => FracEq(toxic_score, ScoreWithoutWinrate)
        /\ arb_winrate # None =>
              /\ FracEq(arb_winrate, Frac(Cardinality(ArbWins), Cardinality(ArbShortInputs)))
              /\ arb_suspect <=> (5 * Cardinality(ArbWins) >= 4 * Cardinality(ArbShortInputs))

\* four of five ultra-short trades won: exactly 0.80, and suspect
C3_Witness ==
    /\ pc = "done"
    /\ Cardinality(ArbShortInputs) = 5
    /\ Cardinality(ArbWins) = 4
    /\ arb_suspect = TRUE

\* -------------------------------------------------------------------------
TicketedInMinute(m) ==
    Cardinality({j \in Survivors : InputMinute(j) = m /\ InputCell(j, "Ticket").k # "empty"})

\* C4: every input row whose open or close time cannot be parsed is removed
\* before any feature is computed: the Dataset holds no null timestamp, it is
\* shorter than the input by the number of such rows, the rows that stay keep
\* their order, and the totals, the scalping counts and the per-minute
\* buckets are those of the rows that stay.
C4_TimestampDrop ==
    DatasetBuilt =>
        /\ \A i \in DOMAIN df.rows :
              df.rows[i]["Open Time"].k = "ts" /\ df.rows[i]["Close Time"].k = "ts"
        /\ Len(df.rows) = InputCount - Cardinality({j \in 1..InputCount : ~ValidTimes(j)})
        /\ {df.rows[i]["index"].v + 1 : i \in DOMAIN df.rows} = Survivors
        /\ \A i, n \in DOMAIN df.rows : i < n => df.rows[i]["index"].v < df.rows[n]["index"].v
        /\ max_trades_per_min = Largest({TicketedInMinute(InputMinute(j)) : j \in Survivors})
        /\ pc \in AfterSummary =>
              /\ total_trades = Cardinality(Survivors)
              /\ total_profit = ProfitOver(Survivors)
              /\ scalp_trades = Cardinality(ScalpInputs)
              /\ scalp_profit = ProfitOver(ScalpInputs)

\* three rows uploaded, the middle one dropped, and the report complete
C4_Witness ==
    /\ pc = "done"
    /\ InputCount = 3
    /\ ~ValidTimes(2)
    /\ total_trades = 2

\* -------------------------------------------------------------------------
Messages == {"error", "info", "exception"}
Report == {"preview", "summary", "score", "equity", "histogram", "table", "download"}

\* C5: on a fatal condition (unreadable file, header not found, required
\* column missing) the run writes exactly one message and nothing of the
\* report (preview, summary, score, charts, table, download), before or after.
C5_FatalHalts ==
    (pc = "stopped" \/ (pc = "prompted" /\ uploaded_file # None)) =>
        /\ Cardinality({i \in DOMAIN out : out[i] \in Messages}) = 1
        /\ \A i \in DOMAIN out : out[i] \notin Report

\* -------------------------------------------------------------------------
\* C6: when some row of the raw table holds all six required names after
\* normalization, the first such row is the header and the analysis runs on
\* the rows after it; missing columns are reported only when no row does.
C6_HeaderLocated ==
    /\ pc = "stopped" => QualifyingRows = {}
    /\ pc = "process" =>
          /\ QualifyingRows # {}
          /\ df.columns = [c \in DOMAIN uploaded_file.grid[Min(QualifyingRows)] |->
                             uploaded_file.grid[Min(QualifyingRows)][c].s]
          /\ Len(df.rows) = Len(uploaded_file.grid) - Min(QualifyingRows)

\* -------------------------------------------------------------------------
\* C7: a row with valid timestamps whose profit or volume is no number stays
\* in the Dataset with that field equal to 0, and the run never halts on it.
C7_NumericDefault ==
    DatasetBuilt =>
        /\ pc # "crashed"
        /\ \A j \in Survivors :
              \E i \in DOMAIN df.rows :
                  /\ df.rows[i]["index"].v = j - 1
                  /\ InputCell(j, "Profit").k = "text" => df.rows[i]["Profit"] = Num(0)
                  /\ InputCell(j, "Volume").k = "text" => df.rows[i]["Volume"] = Num(0)

\* -------------------------------------------------------------------------
RequiredPresent ==
    /\ uploaded_file # None
    /\ ~ReadRaises(uploaded_file)
    /\ \A n \in Range(required_cols) : Txt(n) \in Range(uploaded_file.grid[1])

NothingSurvives == RequiredPresent /\ Survivors = {}

\* C8: when every input row has an unparseable timestamp, or there is no row,
\* the run raises nothing and reports no trades, no trades per minute, a
\* mean holding time of 0, no HFT suspicion, no win rate, score 0, LOW RISK.
C8_EmptyDataset ==
    NothingSurvives =>
        /\ pc \notin {"crashed", "stopped", "prompted"}
        /\ ENABLED Next
        /\ pc \in AfterProcess =>
              /\ max_trades_per_min = 0
              /\ FracEq(avg_holding, Frac(0, 1))
              /\ hft_suspect = FALSE
              /\ arb_winrate = None
        /\ pc \in AfterSummary =>
              /\ total_trades = 0
              /\ FracEq(toxic_score, Frac(0, 1))
              /\ risk_level = "LOW RISK"

\* two rows uploaded, both dropped, and the report complete
C8_Witness == pc = "done" /\ NothingSurvives /\ InputCount = 2 /\ total_trades = 0

\* -------------------------------------------------------------------------
RECURSIVE ProfitsTo(_, _)
\* the sum of the profits of the first n records of rows
ProfitsTo(rows, n) ==
    IF n = 0 THEN 0 ELSE NumberOrZero(rows[n]["Profit"]) + ProfitsTo(rows, n - 1)

\* C9: the equity curve is the Dataset by ascending close time, records of
\* equal close time in their Dataset order; its k-th value is the sum of the
\* profits of the first k records, and its last value is the total profit.
C9_StableEquity ==
    pc \in AfterEquity =>
        /\ \A i, n \in DOMAIN df_sorted :
              i < n =>
                  \/ df_sorted[i]["Close Time"].v < df_sorted[n]["Close Time"].v
                  \/ /\ df_sorted[i]["Close Time"].v = df_sorted[n]["Close Time"].v
                     /\ df_sorted[i]["index"].v < df_sorted[n]["index"].v
        /\ \A n \in DOMAIN df_sorted :
              df_sorted[n]["Cumulative P&L"] = Num(ProfitsTo(df_sorted, n))
        /\ df_sorted # <<>> =>
              df_sorted[Len(df_sorted)]["Cumulative P&L"] = Num(total_profit)

\* -------------------------------------------------------------------------
\* the record of input row j passes the filters that are ticked
Selected(j) ==
    /\ only_scalp => InputHolding(j) <= SCALPING_SECONDS
    /\ only_hft => InputHolding(j) <= HFT_HOLDING_SECONDS
    /\ only_arb => InputHolding(j) <= ARBITRAGE_SECONDS

C10_ViewIsFilter ==
    pc = "done" =>
        /\ Range(view_df) = {r \in Range(df.rows) : Selected(r["index"].v + 1)}
        /\ \A i, n \in DOMAIN view_df : i < n => view_df[i]["index"].v < view_df[n]["index"].v

C10_DatasetKept ==
    pc \in {"equity", "histogram", "table"} => df' = df /\ summary' = summary

\* C10: whatever boxes are ticked, the view holds exactly the Dataset records
\* that pass every ticked filter, in Dataset order, and building the equity
\* curve, the histogram and the view changes neither the Dataset nor the
\* summary.
C10_FiltersAreViews == []C10_ViewIsFilter /\ [][C10_DatasetKept]_vars

\* scalping and HFT-band ticked, and the view keeps some records, not all
C10_Witness ==
    /\ pc = "done"
    /\ only_scalp = TRUE /\ only_hft = TRUE /\ only_arb = FALSE
    /\ 0 < Len(view_df) /\ Len(view_df) < Len(df.rows)

====
